---- MODULE Spec2Model ----
(***************************************************************************)
(* Resolver orchestration and cache-TTL aggregation of the heroes GraphQL  *)
(* facade: GraphQLContext.merge_cache_ttl (app/graphql/context.py) and the *)
(* controller bridge, HeroNode and Query.heroes (app/graphql/schema.py).   *)
(*                                                                         *)
(* Conventions.  An optional value is a sequence of length at most one:    *)
(* None is <<>> and a present value x is <<x>>.  A Python str is a         *)
(* sequence of one-character strings.                                      *)
(***************************************************************************)
EXTENDS Integers, Sequences, FiniteSets, TLC

\* ---------------------------------------------------------------- bounds
\* largest TTL value a header string spells (SpecMerge)
MaxTtl == 2
\* number of direct merge_cache_ttl calls on one context (SpecMerge)
MaxMerges == 3

\* ------------------------------------------------------------ optionals
None == <<>>
Some(x) == <<x>>

\* ------------------------------------------------------ header strings
Digits == {"0", "1", "2", "3", "4", "5", "6", "7", "8", "9"}

DigitVal(c) ==
  CASE c = "0" -> 0 [] c = "1" -> 1 [] c = "2" -> 2 [] c = "3" -> 3
    [] c = "4" -> 4 [] c = "5" -> 5 [] c = "6" -> 6 [] c = "7" -> 7
    [] c = "8" -> 8 [] c = "9" -> 9

DigitChar(d) == <<"0", "1", "2", "3", "4", "5", "6", "7", "8", "9">>[d + 1]

IsSpace(c) == c \in {" "}

RECURSIVE lstrip(_)
lstrip(s) == IF s # <<>> /\ IsSpace(Head(s)) THEN lstrip(Tail(s)) ELSE s

RECURSIVE rstrip(_)
rstrip(s) ==
  IF s # <<>> /\ IsSpace(s[Len(s)]) THEN rstrip(SubSeq(s, 1, Len(s) - 1)) ELSE s

strip(s) == rstrip(lstrip(s))

RECURSIVE DecimalValue(_)
DecimalValue(ds) ==
  IF ds = <<>> THEN 0
  ELSE 10 * DecimalValue(SubSeq(ds, 1, Len(ds) - 1)) + DigitVal(ds[Len(ds)])

\* int(ttl_header) of a str: Some(value), or None where Python raises
\* ValueError.  Surrounding blanks are stripped, one sign is allowed, and
\* the digits may be grouped by single underscores.
int(s) ==
  LET t == strip(s)
      signed == t # <<>> /\ t[1] \in {"+", "-"}
      body == IF signed THEN Tail(t) ELSE t
      wellFormed ==
        /\ body # <<>>
        /\ \A i \in 1..Len(body) : body[i] \in Digits \cup {"_"}
        /\ body[1] # "_"
        /\ body[Len(body)] # "_"
        /\ \A i \in 1..(Len(body) - 1) : ~(body[i] = "_" /\ body[i + 1] = "_")
      mag == DecimalValue(SelectSeq(body, LAMBDA c : c # "_"))
  IN IF wellFormed
       THEN Some(IF signed /\ t[1] = "-" THEN 0 - mag ELSE mag)
       ELSE None

RECURSIVE NatStr(_)
NatStr(n) == IF n < 10 THEN <<DigitChar(n)>> ELSE NatStr(n \div 10) \o <<DigitChar(n % 10)>>

\* str(ttl_value) of an int
str(n) == IF n < 0 THEN <<"-">> \o NatStr(0 - n) ELSE NatStr(n)

\* the integers the header strings spell, one of them negative
TtlValues == (0 - 1)..MaxTtl

\* spellings of n that int() accepts: plain, blank-padded, signed, zero-led
Spellings(n) ==
  {str(n), <<" ">> \o str(n) \o <<" ">>}
    \cup (IF n >= 0 THEN {<<"+">> \o str(n), <<"0">> \o str(n)} ELSE {})

\* strings on which int() raises ValueError
Malformed ==
  {<<>>, <<"-">>, <<"1", "x">>, <<"1", ".", "5">>, <<"1", " ", "0">>, <<"1", "_">>}

\* the argument of merge_cache_ttl: str | None
HeaderInputs ==
  {None} \cup {Some(s) : s \in Malformed \cup {<<"1", "_", "0">>}
                                  \cup UNION {Spellings(n) : n \in TtlValues}}

\* ---------------------------------------------------------------- enums
\* An enum member is a record; its value is a raw value or, in some
\* construction paths of the wire enums, a member of the domain enum.
Raw(v) == [kind |-> "raw", v |-> v]

Member(cls, name, value) ==
  [kind |-> "member", cls |-> cls, name |-> name, value |-> value]

isinstance(x, cls) == x.kind = "member" /\ x.cls = cls

\* domain enums (app.heroes.enums, app.roles.enums, app.enums)
HeroKey ==
  {Member("HeroKey", "ANA", Raw("ana")),
   Member("HeroKey", "LUCIO", Raw("lucio")),
   Member("HeroKey", "SOJOURN", Raw("sojourn"))}

Role ==
  {Member("Role", "DAMAGE", Raw("damage")),
   Member("Role", "SUPPORT", Raw("support"))}

Locale ==
  {Member("Locale", "ENGLISH_US", Raw("en-us")),
   Member("Locale", "FRENCH", Raw("fr-fr"))}

\* wire enums: strawberry.enum(<domain enum>), one member per domain member
HeroKeyEnum == {Member("HeroKeyEnum", m.name, m.value) : m \in HeroKey}

RoleEnum == {Member("RoleEnum", m.name, m.value) : m \in Role}

LocaleEnum == {Member("LocaleEnum", m.name, m.value) : m \in Locale}

\* Enum.__call__: cls(value) returns value itself when it is a member of
\* cls, else the member whose value it is; None stands for ValueError
EnumCall(members, x) ==
  IF x \in members THEN Some(x)
  ELSE IF \E m \in members : m.value = x
         THEN Some(CHOOSE m \in members : m.value = x)
         ELSE None

_convert_role(role) ==
  IF role = None THEN Some(None)
  ELSE IF isinstance(role[1].value, "Role") THEN Some(Some(role[1].value))
  ELSE LET r == EnumCall(Role, role[1].value) IN
         IF r = None THEN None ELSE Some(r)

_convert_locale(locale) ==
  IF isinstance(locale.value, "Locale") THEN Some(locale.value)
  ELSE EnumCall(Locale, locale.value)

_enum_to_hero_key(enum_member) ==
  IF isinstance(enum_member.value, "HeroKey") THEN Some(enum_member.value)
  ELSE EnumCall(HeroKey, enum_member.value)

\* None when the conversion of some key raises
_convert_keys(keys) ==
  IF \E i \in 1..Len(keys) : _enum_to_hero_key(keys[i]) = None
    THEN None
    ELSE Some([i \in 1..Len(keys) |-> _enum_to_hero_key(keys[i])[1]])

_hero_key_to_enum(hero_key) ==
  LET direct == EnumCall(HeroKeyEnum, hero_key) IN
    IF direct # None THEN direct ELSE EnumCall(HeroKeyEnum, hero_key.value)

\* variant: no fallback to the raw value when the direct call fails
_role_to_enum_direct(role) == EnumCall(RoleEnum, role)

_role_to_enum(role) ==
  LET direct == EnumCall(RoleEnum, role) IN
    IF direct # None THEN direct ELSE EnumCall(RoleEnum, role.value)

\* wire to domain, by the converter schema.py has for the member's enum
ToDomain(x) ==
  CASE x.cls = "RoleEnum" ->
         (LET r == _convert_role(Some(x)) IN IF r = None THEN None ELSE r[1])
    [] x.cls = "LocaleEnum" -> _convert_locale(x)
    [] x.cls = "HeroKeyEnum" -> _enum_to_hero_key(x)
    [] OTHER -> None

\* domain to wire, by the converter schema.py has for the member's enum;
\* it has none that takes a Locale
ToWire(y) ==
  CASE y.cls = "Role" -> _role_to_enum(y)
    [] y.cls = "HeroKey" -> _hero_key_to_enum(y)
    [] OTHER -> None

\* ----------------------------------------------------------------- state
\* GraphQLContext.cache_ttl: int | None
VARIABLE cache_ttl
\* context.response.headers[settings.cache_ttl_header]: str, or None if unset
VARIABLE response_header
\* the arguments of the merge_cache_ttl calls made so far on the context
VARIABLE merge_log
\* where the heroes resolver stands: "idle", "await", "done" or "raised"
VARIABLE heroes_pc
\* the arguments heroes was called with: [role, locale, keys]
VARIABLE heroes_args
\* the awaits of ListHeroesController.process_request: the keyword
\* arguments, how the call ended, and the TTL header a returned call left
VARIABLE list_calls
\* heroes' local hero_shorts: the parsed list payload, in downstream order
VARIABLE hero_shorts
\* the error the heroes field failed with, or None
VARIABLE heroes_error
\* the HeroNode objects heroes returned, in order; _details_cache refers to
\* a dict of dicts
VARIABLE nodes
\* the dict objects made by the default_factory of _details_cache
VARIABLE dicts
\* the HeroNode objects of an earlier operation, still holding their dicts
VARIABLE prior_nodes
\* the enum conversions made so far: the member and what it converted to
VARIABLE conversions
\* the resolutions of details fields started so far
VARIABLE tasks
\* the awaits of GetHeroController.process_request and how each ended
VARIABLE detail_calls

ctx == <<cache_ttl, response_header, merge_log>>

heroes_vars ==
  <<heroes_pc, heroes_args, list_calls, hero_shorts, heroes_error, nodes>>

detail_vars == <<tasks, detail_calls>>

heap_vars == <<dicts, prior_nodes>>

vars == <<ctx, heroes_vars, detail_vars, heap_vars, conversions>>

\* build_context: a context over a fresh outbound response; no resolver has
\* run yet
Init ==
  /\ cache_ttl = None
  /\ response_header = None
  /\ merge_log = <<>>
  /\ heroes_pc = "idle"
  /\ heroes_args = None
  /\ list_calls = <<>>
  /\ hero_shorts = <<>>
  /\ heroes_error = None
  /\ nodes = <<>>
  /\ tasks = <<>>
  /\ detail_calls = <<>>
  /\ dicts = <<>>
  /\ prior_nodes = <<>>
  /\ conversions = <<>>

\* variant: tests the stored value for truth instead of `is None`
StoresTtl_Falsy(stored, ttl_value) ==
  stored = None \/ stored[1] = 0 \/ ttl_value < stored[1]

\* variant: the first parsed value is kept
StoresTtl_First(stored, ttl_value) == stored = None

\* variant: the last parsed value always wins
StoresTtl_Always(stored, ttl_value) == TRUE

\* the test of line 29: store when nothing is stored or the value is smaller
StoresTtl(stored, ttl_value) == stored = None \/ ttl_value < stored[1]

\* variant: a header that does not parse is merged as 0
merge_cache_ttl_zero(ttl_header) ==
  /\ merge_log' = Append(merge_log, ttl_header)
  /\ IF ttl_header = None
       THEN UNCHANGED <<cache_ttl, response_header>>
       ELSE LET parsed == int(ttl_header[1])
                ttl_value == IF parsed = None THEN Some(0) ELSE parsed IN
            IF StoresTtl(cache_ttl, ttl_value[1])
              THEN /\ cache_ttl' = ttl_value
                   /\ response_header' = Some(str(ttl_value[1]))
              ELSE UNCHANGED <<cache_ttl, response_header>>

\* variant: the value is stored but the header is left for a later write
merge_cache_ttl_deferred(ttl_header) ==
  /\ merge_log' = Append(merge_log, ttl_header)
  /\ UNCHANGED response_header
  /\ IF ttl_header = None
       THEN UNCHANGED cache_ttl
       ELSE LET ttl_value == int(ttl_header[1]) IN
            IF ttl_value # None /\ StoresTtl(cache_ttl, ttl_value[1])
              THEN cache_ttl' = ttl_value
              ELSE UNCHANGED cache_ttl

\* GraphQLContext.merge_cache_ttl
merge_cache_ttl(ttl_header) ==
  /\ merge_log' = Append(merge_log, ttl_header)
  /\ IF ttl_header = None
       THEN UNCHANGED <<cache_ttl, response_header>>
       ELSE LET ttl_value == int(ttl_header[1]) IN
            IF ttl_value = None
              THEN UNCHANGED <<cache_ttl, response_header>>
              ELSE IF StoresTtl(cache_ttl, ttl_value[1])
                     THEN /\ cache_ttl' = ttl_value
                          /\ response_header' = Some(str(ttl_value[1]))
                     ELSE UNCHANGED <<cache_ttl, response_header>>

\* ------------------------------------------------------ controller bridge
\* header values a downstream controller leaves on the scratch response:
\* none, and two TTLs whose order as integers and as strings differ
ControllerHeaders == {None, Some(<<"1", "0">>), Some(<<"9">>)}

\* errors a downstream process_request raises: a domain error, and the
\* cancellation of the in-flight call
DownstreamErrors == {"HTTPException", "CancelledError"}

\* _run_controller when process_request returned: ttl_header is what
\* temp_response.headers.get(settings.cache_ttl_header) gives
_run_controller_returned(ttl_header) == merge_cache_ttl(ttl_header)

\* variant: the TTL is merged in a finally clause
_run_controller_raised_merging(ttl_header) == merge_cache_ttl(ttl_header)

\* variant: the controller is handed the real response, not a scratch one
_run_controller_raised_real(ttl_header) ==
  /\ response_header' = ttl_header
  /\ UNCHANGED <<cache_ttl, merge_log>>

\* _run_controller when process_request raised: line 73 is never reached,
\* whatever the controller left on the scratch response
_run_controller_raised(ttl_header) == UNCHANGED ctx

\* the error the caller of _run_controller sees when process_request raised
PropagatedError(err) == err

\* ------------------------------------------------------------ list field
RoleOfKey(k) ==
  IF k.name = "SOJOURN" THEN Member("Role", "DAMAGE", Raw("damage"))
  ELSE Member("Role", "SUPPORT", Raw("support"))

\* one item of the list controller's payload, as in the tests
HeroShortPayload(k) ==
  [key |-> k.value, name |-> k.name, portrait |-> <<"portrait", k.name>>,
   role |-> RoleOfKey(k).value]

\* an item that is not Short-Entity shaped
JunkShortPayload ==
  [key |-> Raw("?"), name |-> "?", portrait |-> <<>>, role |-> Raw("?")]

SeqsUpTo(S, n) == UNION {[1..k -> S] : k \in 0..n}

\* HeroShort.model_validate(item); obj is the identity of the new object
HeroShort_model_validate(item, obj) ==
  LET key == EnumCall(HeroKey, item.key)
      role == EnumCall(Role, item.role)
  IN IF key = None \/ role = None THEN None
     ELSE Some([obj |-> obj, key |-> key[1], name |-> item.name,
                portrait |-> item.portrait, role |-> role[1]])

\* None when some item fails validation
_parse_models(data) ==
  IF \E i \in 1..Len(data) : HeroShort_model_validate(data[i], i) = None
    THEN None
    ELSE Some([i \in 1..Len(data) |-> HeroShort_model_validate(data[i], i)[1]])

\* the dict of line 92 and of every Entity Node: no locale memoized
CacheKeys == {m.value : m \in LocaleEnum}

EmptyCache == [k \in CacheKeys |-> None]

\* variant: one dict is shared by every node, as a class-level default is
NewDict_Shared(allocated, i) == 1

\* field(default_factory=dict): the i-th node constructed when `allocated`
\* dicts exist gets a dict of its own
NewDict(allocated, i) == allocated + i

_make_hero_node(hero_short, cache_ref) ==
  [key |-> _hero_key_to_enum(hero_short.key)[1],
   name |-> hero_short.name,
   portrait |-> hero_short.portrait,
   role |-> _role_to_enum(hero_short.role)[1],
   _details_cache |-> cache_ref,
   short |-> hero_short.obj]

\* variant: the first hero with the key is kept
by_key_get_first(shorts, key) ==
  LET at == {i \in 1..Len(shorts) : shorts[i].key = key} IN
    IF at = {} THEN None
    ELSE Some(shorts[CHOOSE i \in at : \A j \in at : i <= j])

\* by_key.get(key) for by_key = {hero.key: hero for hero in hero_shorts}:
\* a later hero replaces an earlier one with the same key
by_key_get(shorts, key) ==
  LET at == {i \in 1..Len(shorts) : shorts[i].key = key} IN
    IF at = {} THEN None
    ELSE Some(shorts[CHOOSE i \in at : \A j \in at : j <= i])

\* variant: the loop ends at the first key that is not found
RECURSIVE FilterLoop_Break(_, _)
FilterLoop_Break(shorts, keys) ==
  IF keys = <<>> THEN <<>>
  ELSE LET hero == by_key_get(shorts, Head(keys)) IN
         IF hero # None THEN <<hero[1]>> \o FilterLoop_Break(shorts, Tail(keys))
         ELSE <<>>

\* the loop of lines 141-143
RECURSIVE FilterLoop(_, _)
FilterLoop(shorts, keys) ==
  IF keys = <<>> THEN <<>>
  ELSE LET hero == by_key_get(shorts, Head(keys)) IN
         (IF hero # None THEN <<hero[1]>> ELSE <<>>)
           \o FilterLoop(shorts, Tail(keys))

\* variant: the downstream list is filtered in its own order
_filter_by_keys_downstream(shorts, keys) ==
  IF keys = <<>> THEN shorts
  ELSE SelectSeq(shorts, LAMBDA h : \E i \in 1..Len(keys) : keys[i] = h.key)

\* variant: an empty keys list is not passed through
_filter_by_keys_strict(shorts, keys) == FilterLoop(shorts, keys)

\* variant: the keys are ignored
_filter_by_keys_all(shorts, keys) == shorts

_filter_by_keys(shorts, keys) ==
  IF keys = <<>> THEN shorts ELSE FilterLoop(shorts, keys)

\* Query.heroes up to the await of the list controller
HeroesCall(role, locale, keys) ==
  /\ heroes_pc = "idle"
  /\ heroes_args' = Some([role |-> role, locale |-> locale, keys |-> keys])
  /\ IF _convert_role(role) = None \/ _convert_locale(locale) = None
       THEN /\ heroes_pc' = "raised"
            /\ heroes_error' = Some("ValueError")
            /\ UNCHANGED list_calls
       ELSE /\ heroes_pc' = "await"
            /\ list_calls' = Append(list_calls,
                                    [role |-> _convert_role(role)[1],
                                     locale |-> _convert_locale(locale)[1],
                                     status |-> "pending", error |-> None,
                                     ttl |-> None])
            /\ UNCHANGED heroes_error
  /\ UNCHANGED <<ctx, hero_shorts, nodes, detail_vars, heap_vars, conversions>>

\* Query.heroes from the return of the list controller to its own return
ListReturns(payload, ttl_header) ==
  /\ heroes_pc = "await"
  /\ _run_controller_returned(ttl_header)
  /\ \E parsed \in {_parse_models(payload)} :
       IF parsed = None
         THEN /\ heroes_pc' = "raised"
              /\ heroes_error' = Some("ValidationError")
              /\ UNCHANGED <<hero_shorts, nodes, dicts>>
       ELSE LET keys == heroes_args[1].keys
                hero_keys == IF keys # None /\ keys[1] # <<>>
                               THEN _convert_keys(keys[1]) ELSE Some(<<>>)
            IN IF hero_keys = None
                 THEN /\ heroes_pc' = "raised"
                      /\ heroes_error' = Some("ValueError")
                      /\ hero_shorts' = parsed[1]
                      /\ UNCHANGED <<nodes, dicts>>
               ELSE \E filtered \in {_filter_by_keys(parsed[1], hero_keys[1])} :
                      /\ heroes_pc' = "done"
                      /\ hero_shorts' = parsed[1]
                      /\ nodes' = [i \in 1..Len(filtered) |->
                                     _make_hero_node(filtered[i], NewDict(Len(dicts), i))]
                      /\ dicts' = dicts \o [i \in 1..Len(filtered) |-> EmptyCache]
                      /\ UNCHANGED heroes_error
  /\ list_calls' = [list_calls EXCEPT ![Len(list_calls)].status = "returned",
                                      ![Len(list_calls)].ttl = ttl_header]
  /\ UNCHANGED <<heroes_args, detail_vars, prior_nodes, conversions>>

\* Query.heroes when the list controller raises: the error leaves heroes
ListRaises(err, ttl_header) ==
  /\ heroes_pc = "await"
  /\ _run_controller_raised(ttl_header)
  /\ heroes_pc' = "raised"
  /\ heroes_error' = Some(PropagatedError(err))
  /\ list_calls' = [list_calls EXCEPT ![Len(list_calls)].status = "raised",
                                      ![Len(list_calls)].error = Some(err)]
  /\ UNCHANGED <<heroes_args, hero_shorts, nodes, detail_vars, heap_vars, conversions>>

\* ---------------------------------------------------- bounds of SpecHeroes
\* longest caller-supplied keys list
MaxKeys == 3
\* longest payload of the list controller
MaxShorts == 3

RoleArgs == {None} \cup {Some(m) : m \in RoleEnum}

KeysArgs == {None} \cup {Some(ks) : ks \in SeqsUpTo(HeroKeyEnum, MaxKeys)}

ListPayloads ==
  {[i \in 1..Len(ks) |-> HeroShortPayload(ks[i])] : ks \in SeqsUpTo(HeroKey, MaxShorts)}
    \cup {<<HeroShortPayload(CHOOSE k \in HeroKey : TRUE), JunkShortPayload>>}

HeroesCalled ==
  /\ heroes_pc = "idle"
  /\ \E role \in RoleArgs, locale \in LocaleEnum, keys \in KeysArgs :
       HeroesCall(role, locale, keys)

ListReturned ==
  /\ heroes_pc = "await"
  /\ \E payload \in ListPayloads, ttl_header \in ControllerHeaders :
       ListReturns(payload, ttl_header)

ListRaised ==
  /\ heroes_pc = "await"
  /\ \E err \in DownstreamErrors, ttl_header \in ControllerHeaders :
       ListRaises(err, ttl_header)

NextHeroes == HeroesCalled \/ ListReturned \/ ListRaised

SpecHeroes == Init /\ [][NextHeroes]_vars

\* ---------------------------------------------------------- details field
\* the detail controller's payload for a hero and a locale, as in the tests
HeroPayload(hero_key, locale) ==
  [shape |-> "hero", name |-> hero_key.name,
   description |-> <<hero_key.name, locale.name>>]

\* a payload that is not Detail-Entity shaped
JunkHeroPayload == [shape |-> "junk", name |-> "?", description |-> <<>>]

\* variant: the payload is taken as it is, without validation
Hero_model_validate_lax(payload, obj) ==
  Some([obj |-> obj, name |-> payload.name, description |-> payload.description])

\* Hero.model_validate(payload); obj is the identity of the new object
Hero_model_validate(payload, obj) ==
  IF payload.shape = "hero"
    THEN Some([obj |-> obj, name |-> payload.name,
               description |-> payload.description])
    ELSE None

\* variant: the entity is not stored
StoreDetails_Skip(cache, cache_key, hero) == cache

\* line 110: self._details_cache[cache_key] = hero
StoreDetails(cache, cache_key, hero) == [cache EXCEPT ![cache_key] = Some(hero)]

\* variant: the lookup never finds an entry
dict_get_Miss(cache, cache_key) == None

\* line 100: self._details_cache.get(cache_key)
dict_get(cache, cache_key) == cache[cache_key]

\* HeroNode.details up to the await of the detail controller, or to its
\* return when the locale is memoized
DetailsCall(n, locale) ==
  /\ heroes_pc = "done"
  /\ n \in 1..Len(nodes)
  /\ LET cache_key == locale.value
         cached == dict_get(dicts[nodes[n]._details_cache], cache_key)
         hero_key == _enum_to_hero_key(nodes[n].key)
         dlocale == _convert_locale(locale)
         task == [node |-> n, locale |-> locale, pc |-> "await", call |-> 0,
                  result |-> None, error |-> None]
     IN IF cached # None
          THEN /\ tasks' = Append(tasks, [task EXCEPT !.pc = "done",
                                                      !.result = cached])
               /\ UNCHANGED detail_calls
        ELSE IF hero_key = None \/ dlocale = None
          THEN /\ tasks' = Append(tasks, [task EXCEPT !.pc = "failed",
                                                      !.error = Some("ValueError")])
               /\ UNCHANGED detail_calls
        ELSE /\ detail_calls' = Append(detail_calls,
                                       [node |-> n, hero_key |-> hero_key[1],
                                        locale |-> dlocale[1],
                                        status |-> "pending", error |-> None,
                                        ttl |-> None])
             /\ tasks' = Append(tasks, [task EXCEPT !.call = Len(detail_calls) + 1])
  /\ UNCHANGED <<ctx, heroes_vars, heap_vars, conversions>>

\* HeroNode.details from the return of the detail controller to its own
\* return; valid tells whether the payload is Detail-Entity shaped
DetailReturns(t, valid, ttl_header) ==
  /\ t \in 1..Len(tasks)
  /\ tasks[t].pc = "await"
  /\ _run_controller_returned(ttl_header)
  /\ LET task == tasks[t]
         call == detail_calls[task.call]
         payload == IF valid THEN HeroPayload(call.hero_key, call.locale)
                             ELSE JunkHeroPayload
         hero == Hero_model_validate(payload, task.call)
         cache_key == task.locale.value
     IN /\ detail_calls' = [detail_calls EXCEPT ![task.call].status = "returned",
                                                ![task.call].ttl = ttl_header]
        /\ IF hero = None
             THEN /\ tasks' = [tasks EXCEPT ![t].pc = "failed",
                                            ![t].error = Some("ValidationError")]
                  /\ UNCHANGED dicts
             ELSE /\ dicts' = [dicts EXCEPT ![nodes[task.node]._details_cache] =
                                 StoreDetails(@, cache_key, hero[1])]
                  /\ tasks' = [tasks EXCEPT ![t].pc = "done", ![t].result = hero]
  /\ UNCHANGED <<heroes_vars, prior_nodes, conversions>>

\* HeroNode.details when the detail controller raises
DetailRaises(t, err, ttl_header) ==
  /\ t \in 1..Len(tasks)
  /\ tasks[t].pc = "await"
  /\ _run_controller_raised(ttl_header)
  /\ detail_calls' = [detail_calls EXCEPT ![tasks[t].call].status = "raised",
                                          ![tasks[t].call].error = Some(err)]
  /\ tasks' = [tasks EXCEPT ![t].pc = "failed",
                            ![t].error = Some(PropagatedError(err))]
  /\ UNCHANGED <<heroes_vars, heap_vars, conversions>>

\* a resolver calls merge_cache_ttl on the context
Merge ==
  \E ttl_header \in HeaderInputs :
    /\ Len(merge_log) < MaxMerges
    /\ merge_cache_ttl(ttl_header)
    /\ UNCHANGED <<heroes_vars, detail_vars, heap_vars, conversions>>

NextMerge == Merge

SpecMerge == Init /\ [][NextMerge]_vars

\* ---------------------------------------------------------- one operation
\* number of details fields resolved in one operation
MaxTasks == 2

ANA == Member("HeroKey", "ANA", Raw("ana"))

SOJOURN == Member("HeroKey", "SOJOURN", Raw("sojourn"))

ENGLISH_US == Member("LocaleEnum", "ENGLISH_US", Raw("en-us"))

\* the keys arguments of the operations: none, the tests' [ANA], and a
\* repeated key
OpKeysArgs ==
  {None, Some(<<_hero_key_to_enum(ANA)[1]>>),
   Some(<<_hero_key_to_enum(ANA)[1], _hero_key_to_enum(ANA)[1]>>)}

\* the list payload of the tests: ANA then SOJOURN
OpListPayload == <<HeroShortPayload(ANA), HeroShortPayload(SOJOURN)>>

OpHeroesCalled ==
  \E keys \in OpKeysArgs : HeroesCall(None, ENGLISH_US, keys)

OpListReturned ==
  \E ttl_header \in ControllerHeaders : ListReturns(OpListPayload, ttl_header)

DetailsCalled ==
  \E n \in 1..Len(nodes), locale \in LocaleEnum :
    /\ Len(tasks) < MaxTasks
    /\ DetailsCall(n, locale)

DetailReturned ==
  \E t \in 1..Len(tasks), valid \in BOOLEAN, ttl_header \in ControllerHeaders :
    DetailReturns(t, valid, ttl_header)

DetailRaised ==
  \E t \in 1..Len(tasks), err \in DownstreamErrors, ttl_header \in ControllerHeaders :
    DetailRaises(t, err, ttl_header)

Next ==
  \/ OpHeroesCalled
  \/ OpListReturned
  \/ ListRaised
  \/ DetailsCalled
  \/ DetailReturned
  \/ DetailRaised

Spec == Init /\ [][Next]_vars

\* ------------------------------------------------------- two operations
\* a second operation begins once the first has resolved: build_context
\* makes a new context and no resolver has run; the nodes of the first
\* operation and their dicts are still there
NewOperation ==
  /\ prior_nodes = <<>>
  /\ heroes_pc = "done"
  /\ nodes # <<>>
  /\ \A t \in 1..Len(tasks) : tasks[t].pc # "await"
  /\ prior_nodes' = nodes
  /\ cache_ttl' = None
  /\ response_header' = None
  /\ merge_log' = <<>>
  /\ heroes_pc' = "idle"
  /\ heroes_args' = None
  /\ list_calls' = <<>>
  /\ hero_shorts' = <<>>
  /\ heroes_error' = None
  /\ nodes' = <<>>
  /\ tasks' = <<>>
  /\ detail_calls' = <<>>
  /\ UNCHANGED <<dicts, conversions>>

\* the list controller returns the list of the tests and no TTL header
PlainListReturned == ListReturns(OpListPayload, None)

\* a detail controller returns a valid payload and no TTL header
PlainDetailReturned ==
  \E t \in 1..Len(tasks) : DetailReturns(t, TRUE, None)

NextNodes ==
  \/ OpHeroesCalled
  \/ PlainListReturned
  \/ DetailsCalled
  \/ PlainDetailReturned
  \/ NewOperation

SpecNodes == Init /\ [][NextNodes]_vars

\* ---------------------------------------------------------- enum crosswalk
\* number of conversions made in one run (SpecEnum)
MaxConversions == 2

WireMembers == RoleEnum \cup LocaleEnum \cup HeroKeyEnum

DomainMembers == Role \cup Locale \cup HeroKey

\* a wire member is converted to the domain and back
ConvertWire ==
  \E x \in WireMembers :
    /\ Len(conversions) < MaxConversions
    /\ LET there == ToDomain(x)
           back == IF there = None THEN None ELSE ToWire(there[1])
       IN conversions' = Append(conversions,
                                [member |-> x, there |-> there, back |-> back])
    /\ UNCHANGED <<ctx, heroes_vars, detail_vars, heap_vars>>

\* a domain member is converted to the wire and back
ConvertDomain ==
  \E y \in DomainMembers :
    /\ Len(conversions) < MaxConversions
    /\ LET there == ToWire(y)
           back == IF there = None THEN None ELSE ToDomain(there[1])
       IN conversions' = Append(conversions,
                                [member |-> y, there |-> there, back |-> back])
    /\ UNCHANGED <<ctx, heroes_vars, detail_vars, heap_vars>>

NextEnum == ConvertWire \/ ConvertDomain

SpecEnum == Init /\ [][NextEnum]_vars

\* ------------------------------------------------- TTL aggregation claims
\* the header arguments that parsed as integers, as a set of integers
Parses(ttl_header) == ttl_header # None /\ int(ttl_header[1]) # None

ParsedValues ==
  {int(merge_log[i][1])[1] : i \in {j \in 1..Len(merge_log) : Parses(merge_log[j])}}

Minimum(S) == CHOOSE m \in S : \A x \in S : m <= x

LastMerged == merge_log'[Len(merge_log')]

\* C1: after any sequence of merge_cache_ttl calls the outbound TTL header
\* is the decimal string of the minimum of the values that parsed as
\* integers, and it is absent when none of them parsed.
TtlIsTrueMinimum ==
  response_header =
    IF ParsedValues = {} THEN None ELSE Some(str(Minimum(ParsedValues)))

\* three calls: a value, a malformed string, then a strictly smaller value
TtlIsTrueMinimum_Witness ==
  /\ Len(merge_log) >= 3
  /\ Parses(merge_log[1])
  /\ merge_log[2] # None /\ ~Parses(merge_log[2])
  /\ Parses(merge_log[3])
  /\ int(merge_log[3][1])[1] < int(merge_log[1][1])[1]
  /\ response_header = Some(str(int(merge_log[3][1])[1]))

\* C9: once cache_ttl holds a value no merge_cache_ttl call makes it larger
\* or absent; merging a larger or equal value leaves it unchanged, merging
\* a strictly smaller value replaces it.
CacheTtlNonIncreasing ==
  [][cache_ttl # None =>
       /\ cache_ttl' # None
       /\ cache_ttl'[1] <= cache_ttl[1]
       /\ (merge_log' # merge_log /\ Parses(LastMerged)) =>
             LET v == int(LastMerged[1])[1] IN
               /\ v >= cache_ttl[1] => cache_ttl' = cache_ttl
               /\ v < cache_ttl[1] => cache_ttl' = Some(v)]_vars

\* a larger value was merged after a smaller one, and the smaller one stays
CacheTtlNonIncreasing_Witness ==
  /\ Len(merge_log) >= 2
  /\ Parses(merge_log[1]) /\ Parses(merge_log[2])
  /\ int(merge_log[2][1])[1] > int(merge_log[1][1])[1]
  /\ cache_ttl = int(merge_log[1][1])

\* C10: merge_cache_ttl with an absent header, or with a string that does
\* not parse as an integer, completes and leaves cache_ttl and the outbound
\* TTL header unchanged.
BadHeaderIsNoOp ==
  [][(merge_log' # merge_log /\ ~Parses(LastMerged)) =>
       /\ cache_ttl' = cache_ttl
       /\ response_header' = response_header]_vars

\* an absent and a malformed header were merged after a value was stored
BadHeaderIsNoOp_Witness ==
  /\ Len(merge_log) >= 3
  /\ Parses(merge_log[1])
  /\ merge_log[2] = None
  /\ merge_log[3] # None /\ ~Parses(merge_log[3])
  /\ cache_ttl = int(merge_log[1][1])
  /\ response_header = Some(str(cache_ttl[1]))
\* ----------------------------------------------------- key filter claims
\* the caller's keys list, empty when the argument is absent
RequestedKeys ==
  IF heroes_args = None \/ heroes_args[1].keys = None
    THEN <<>> ELSE heroes_args[1].keys[1]

\* the names of the entity keys the list controller returned, in order
DownstreamNames == [i \in 1..Len(hero_shorts) |-> hero_shorts[i].key.name]

NodeNames == [i \in 1..Len(nodes) |-> nodes[i].key.name]

InDownstream(key) == \E i \in 1..Len(hero_shorts) : hero_shorts[i].key.name = key.name

Occurrences(seq, x) == Cardinality({i \in 1..Len(seq) : seq[i] = x})

\* C3: with a non-empty keys list the nodes follow the caller's keys in the
\* order given, one node per repetition of a key, each built from a Short
\* Entity of that key, repetitions from the same one: downstream
\* [ANA, LUCIO, SOJOURN] with keys [SOJOURN, ANA, SOJOURN] yields
\* [SOJOURN, ANA, SOJOURN].
KeysOrderPreserved ==
  (heroes_pc = "done" /\ RequestedKeys # <<>>) =>
    LET wanted == SelectSeq(RequestedKeys, InDownstream) IN
      /\ Len(nodes) = Len(wanted)
      /\ \A i \in 1..Len(nodes) :
           /\ nodes[i].key = wanted[i]
           /\ nodes[i].short \in 1..Len(hero_shorts)
           /\ hero_shorts[nodes[i].short].key.name = wanted[i].name
      /\ \A i, j \in 1..Len(nodes) :
           nodes[i].key = nodes[j].key => nodes[i].short = nodes[j].short

\* the example of the claim, with SOJOURN, ANA, LUCIO for C, A, B
KeysOrderPreserved_Witness ==
  /\ heroes_pc = "done"
  /\ DownstreamNames = <<"ANA", "LUCIO", "SOJOURN">>
  /\ [i \in 1..Len(RequestedKeys) |-> RequestedKeys[i].name]
       = <<"SOJOURN", "ANA", "SOJOURN">>
  /\ NodeNames = <<"SOJOURN", "ANA", "SOJOURN">>
  /\ nodes[1].short = 3 /\ nodes[2].short = 1 /\ nodes[3].short = 3

\* C4: a requested key that the downstream list lacks produces no node and
\* no error, and every requested key the list has still gets its nodes.
MissingKeySkipped ==
  (RequestedKeys # <<>> /\ Len(list_calls) = 1
     /\ list_calls[1].status = "returned" /\ heroes_error # Some("ValidationError")) =>
    /\ heroes_pc = "done"
    /\ heroes_error = None
    /\ \A k \in HeroKeyEnum :
         Occurrences(NodeNames, k.name) =
           IF InDownstream(k) THEN Occurrences(RequestedKeys, k) ELSE 0

\* keys [LUCIO, ANA] over a downstream list that has ANA but not LUCIO
MissingKeySkipped_Witness ==
  /\ heroes_pc = "done"
  /\ DownstreamNames = <<"ANA", "SOJOURN">>
  /\ [i \in 1..Len(RequestedKeys) |-> RequestedKeys[i].name] = <<"LUCIO", "ANA">>
  /\ NodeNames = <<"ANA">>
  /\ heroes_error = None

\* C5: with keys absent or empty there is one node per Short Entity of the
\* list controller, in downstream order, duplicates included.
NoKeysPassThrough ==
  (heroes_pc = "done" /\ RequestedKeys = <<>>) =>
    /\ Len(nodes) = Len(hero_shorts)
    /\ \A i \in 1..Len(nodes) :
         /\ nodes[i].short = i
         /\ nodes[i].key.name = hero_shorts[i].key.name
         /\ nodes[i].name = hero_shorts[i].name
         /\ nodes[i].role.name = hero_shorts[i].role.name

\* an empty keys list over a downstream list that repeats a key
NoKeysPassThrough_Witness ==
  /\ heroes_pc = "done"
  /\ heroes_args[1].keys = Some(<<>>)
  /\ DownstreamNames = <<"SOJOURN", "ANA", "SOJOURN">>
  /\ NodeNames = <<"SOJOURN", "ANA", "SOJOURN">>
  /\ nodes[1].short = 1 /\ nodes[3].short = 3

\* ------------------------------------------------------- response shape
\* line 118: details returns HeroDetailsType, a non-null type of the schema
DetailsNonNull == TRUE

\* line 156: heroes returns list[HeroNode], a non-null list of non-null nodes
HeroesNonNull == TRUE

TasksOf(n) == {t \in 1..Len(tasks) : tasks[t].node = n}

\* the data entry of the response for the fields resolved so far: a field
\* error in a non-null field nulls its parent, up to the first nullable one
ResponseData ==
  IF heroes_pc # "done" THEN None
  ELSE IF DetailsNonNull /\ HeroesNonNull
          /\ \E t \in 1..Len(tasks) : tasks[t].pc = "failed"
    THEN None
  ELSE Some([heroes |->
               [n \in 1..Len(nodes) |->
                  IF \E t \in TasksOf(n) : tasks[t].pc = "failed"
                    THEN None
                    ELSE Some([key |-> nodes[n].key,
                               details |-> {tasks[t].result : t \in TasksOf(n)}])]])

\* ------------------------------------------------------- resolver claims
CallsFor(calls, n, locale) ==
  {c \in 1..Len(calls) : calls[c].node = n /\ calls[c].locale.name = locale.name}

\* C2: a getDetails call made after the one earlier call for the same node
\* and locale has stored its entity invokes no detail controller, leaving
\* exactly one invocation for that node and locale, and returns the stored
\* object.
DetailsMemoized ==
  [][Len(tasks') = Len(tasks) + 1 =>
       LET new == tasks'[Len(tasks')]
           earlier == {t \in 1..Len(tasks) : tasks[t].node = new.node
                                              /\ tasks[t].locale = new.locale}
       IN (Cardinality(earlier) = 1 /\ \A t \in earlier : tasks[t].pc = "done") =>
            /\ detail_calls' = detail_calls
            /\ Cardinality(CallsFor(detail_calls', new.node, new.locale)) = 1
            /\ new.pc = "done"
            /\ \A t \in earlier : new.result = tasks[t].result]_vars

\* two finished calls for one node and locale, one invocation between them
DetailsMemoized_Witness ==
  /\ Len(tasks) = 2
  /\ tasks[1].node = tasks[2].node /\ tasks[1].locale = tasks[2].locale
  /\ tasks[1].pc = "done" /\ tasks[2].pc = "done"
  /\ tasks[1].call = 1 /\ tasks[2].call = 0
  /\ tasks[2].result = tasks[1].result /\ tasks[1].result # None
  /\ Len(detail_calls) = 1

\* C6: when the details of node X failed and the details of another node Y
\* resolved, the response still carries the heroes list, X's entry alone is
\* an error and Y's entry holds the entity returned for Y.
PartialFailureIsolated ==
  \A x, y \in 1..Len(tasks) :
    (tasks[x].pc = "failed" /\ tasks[y].pc = "done"
       /\ tasks[x].node # tasks[y].node
       /\ \A t \in TasksOf(tasks[y].node) : tasks[t].pc = "done") =>
      /\ ResponseData # None
      /\ ResponseData[1].heroes[tasks[y].node] # None
      /\ tasks[y].result \in ResponseData[1].heroes[tasks[y].node][1].details

\* C7: when process_request raises, the caller of the bridge fails with
\* that same error and the step merges nothing: cache_ttl, the outbound
\* header and the merge history are what they were; every merge made so
\* far comes from a call that returned.
Raised(calls, calls2) ==
  {c \in 1..Len(calls) : calls[c].status = "pending" /\ calls2[c].status = "raised"}

ReturnedCalls ==
  Cardinality({c \in 1..Len(list_calls) : list_calls[c].status = "returned"})
    + Cardinality({c \in 1..Len(detail_calls) : detail_calls[c].status = "returned"})

BridgeFailurePropagates ==
  /\ [](Len(merge_log) = ReturnedCalls)
  /\ [][/\ \A c \in Raised(detail_calls, detail_calls') :
            /\ ctx' = ctx
            /\ \E t \in 1..Len(tasks) :
                 /\ tasks[t].call = c
                 /\ tasks'[t].pc = "failed"
                 /\ tasks'[t].error = detail_calls'[c].error
                 /\ tasks'[t].error \in {Some(e) : e \in DownstreamErrors}
        /\ \A c \in Raised(list_calls, list_calls') :
            /\ ctx' = ctx
            /\ heroes_pc' = "raised"
            /\ heroes_error' = list_calls'[c].error
            /\ heroes_error' \in {Some(e) : e \in DownstreamErrors}]_vars

\* a detail call was cancelled after the list call had set the header
BridgeFailurePropagates_Witness ==
  /\ cache_ttl = Some(9) /\ response_header = Some(<<"9">>)
  /\ Len(merge_log) = 1
  /\ \E t \in 1..Len(tasks) :
       /\ tasks[t].pc = "failed"
       /\ tasks[t].error = Some("CancelledError")
       /\ detail_calls[tasks[t].call].status = "raised"
       /\ detail_calls[tasks[t].call].error = Some("CancelledError")

\* C8: heroes awaits the list controller once and never the detail
\* controller; a detail call belongs to a details resolution of an emitted
\* node, so no details resolved means no detail call, and keys [ANA] over
\* the list [ANA, SOJOURN] with details resolved once on every emitted node
\* makes one detail call, for ANA.
DetailsResolvedOncePerNode ==
  /\ Len(tasks) = Len(nodes)
  /\ \A n \in 1..Len(nodes) : Cardinality(TasksOf(n)) = 1

AnaScenario ==
  /\ heroes_pc = "done"
  /\ DownstreamNames = <<"ANA", "SOJOURN">>
  /\ [i \in 1..Len(RequestedKeys) |-> RequestedKeys[i].name] = <<"ANA">>

LazyDetails ==
  /\ [](/\ Len(list_calls) = IF heroes_pc = "idle" THEN 0 ELSE 1
        /\ Len(detail_calls) <= Len(tasks)
        /\ \A c \in 1..Len(detail_calls) :
             /\ detail_calls[c].node \in 1..Len(nodes)
             /\ detail_calls[c].hero_key.name = nodes[detail_calls[c].node].key.name
             /\ \E t \in TasksOf(detail_calls[c].node) : tasks[t].call = c
        /\ (AnaScenario /\ DetailsResolvedOncePerNode) =>
             /\ Len(detail_calls) = 1
             /\ detail_calls[1].hero_key.name = "ANA")
  /\ [][heroes_pc' # heroes_pc =>
          /\ detail_calls' = detail_calls
          /\ detail_calls = <<>>]_vars

\* the scenario of the tests, its one details field resolved
LazyDetails_Witness ==
  /\ AnaScenario
  /\ DetailsResolvedOncePerNode
  /\ Len(nodes) = 1
  /\ tasks[1].pc = "done"
  /\ Len(list_calls) = 1 /\ Len(detail_calls) = 1
\* the entry of node n's cache for a wire locale
Memoized(n, locale) == dicts[nodes[n]._details_cache][locale.value]

NewTask == tasks'[Len(tasks')]

\* C11: a getDetails call that finds the locale memoized on its node returns
\* the memoized entity at once: no detail call is made, nothing is merged,
\* and the context, the nodes and their caches are unchanged.
CacheHitTouchesNothing ==
  [][(Len(tasks') = Len(tasks) + 1 /\ Memoized(NewTask.node, NewTask.locale) # None) =>
       /\ NewTask.pc = "done"
       /\ NewTask.result = Memoized(NewTask.node, NewTask.locale)
       /\ NewTask.call = 0
       /\ detail_calls' = detail_calls
       /\ ctx' = ctx
       /\ nodes' = nodes
       /\ dicts' = dicts]_vars

\* a cache hit on a node whose first call set the header to 9
CacheHitTouchesNothing_Witness ==
  /\ Len(tasks) = 2
  /\ tasks[1].node = tasks[2].node /\ tasks[1].locale = tasks[2].locale
  /\ tasks[1].call = 1 /\ tasks[2].call = 0 /\ tasks[2].pc = "done"
  /\ detail_calls[1].ttl = Some(<<"9">>)
  /\ merge_log = <<None, Some(<<"9">>)>>
  /\ response_header = Some(<<"9">>)
  /\ Memoized(tasks[2].node, tasks[2].locale) = tasks[2].result
AllCallsFinished ==
  /\ heroes_pc \in {"done", "raised"}
  /\ \A t \in 1..Len(tasks) : tasks[t].pc # "await"

\* the TTL values of the downstream calls that returned with a header that
\* parses
ReturnedTtls ==
  {int(list_calls[c].ttl[1])[1] :
     c \in {k \in 1..Len(list_calls) :
              list_calls[k].status = "returned" /\ Parses(list_calls[k].ttl)}}
    \cup
  {int(detail_calls[c].ttl[1])[1] :
     c \in {k \in 1..Len(detail_calls) :
              detail_calls[k].status = "returned" /\ Parses(detail_calls[k].ttl)}}

\* C13: whatever the interleaving and the completion order of the list call
\* and the detail calls, once all of them have finished the outbound header
\* is the minimum of the parsed TTLs of the calls that returned, and absent
\* when there is none.
TtlMinimumOverInterleavings ==
  AllCallsFinished =>
    response_header =
      IF ReturnedTtls = {} THEN None ELSE Some(str(Minimum(ReturnedTtls)))

\* two detail calls in flight together, the second returned first with 9 and
\* the first then with 10, after the list call gave no header
TtlMinimumOverInterleavings_Witness ==
  /\ AllCallsFinished
  /\ Len(detail_calls) = 2
  /\ detail_calls[1].ttl = Some(<<"1", "0">>)
  /\ detail_calls[2].ttl = Some(<<"9">>)
  /\ merge_log = <<None, Some(<<"9">>), Some(<<"1", "0">>)>>
  /\ response_header = Some(<<"9">>)
\* C14 as stated: the outbound header is written once per operation, and
\* only after every downstream call of the operation has completed.
HeaderWrittenOnceAtEnd ==
  [][response_header' # response_header =>
       /\ response_header = None
       /\ AllCallsFinished']_vars

\* C14 as amended: the header is written during resolution, by every
\* merge_cache_ttl call that stores a value, in the same step as cache_ttl
\* and with the value stored; it may be written several times, and while
\* other downstream calls are in flight.
HeaderWrittenAtEachStore ==
  [][/\ (cache_ttl' # cache_ttl) <=> (response_header' # response_header)
     /\ response_header' # response_header =>
          /\ Len(merge_log') = Len(merge_log) + 1
          /\ Parses(LastMerged)
          /\ cache_ttl' = int(LastMerged[1])
          /\ response_header' = Some(str(int(LastMerged[1])[1]))]_vars

\* the header was written twice, the second time with a detail call in flight
HeaderWrittenAtEachStore_Witness ==
  /\ merge_log = <<Some(<<"1", "0">>), Some(<<"9">>)>>
  /\ response_header = Some(<<"9">>)
  /\ \E t \in 1..Len(tasks) : tasks[t].pc = "await"
\* C15: cache_ttl is absent or a non-negative integer, whatever header
\* strings have been merged.
CacheTtlNonNegative == cache_ttl = None \/ cache_ttl[1] >= 0
\* ----------------------------------------------------- node cache claims
\* the nodes of this operation and of the earlier one
AllNodes == nodes \o prior_nodes

\* the dicts a step changed
ChangedDicts == {i \in 1..Len(dicts) : dicts'[i] # dicts[i]}

\* the tasks whose getDetails call ended in a step
EndedTasks == {t \in 1..Len(tasks) : tasks[t].pc = "await" /\ tasks'[t].pc # "await"}

\* C16: every node has a cache of its own, empty when the node is
\* constructed, and a getDetails call changes no cache but that of its own
\* node: not that of another node of the response, built for the same key
\* or not, nor that of a node of an earlier operation.
CachePrivate ==
  /\ [](\A i, j \in 1..Len(AllNodes) :
          i # j => AllNodes[i]._details_cache # AllNodes[j]._details_cache)
  /\ [][/\ (heroes_pc = "await" /\ heroes_pc' = "done") =>
            \A n \in 1..Len(nodes') : dicts'[nodes'[n]._details_cache] = EmptyCache
        /\ \A i \in ChangedDicts :
            /\ \E t \in EndedTasks : nodes[tasks[t].node]._details_cache = i
            /\ \A t \in EndedTasks :
                 \A m \in 1..Len(AllNodes) :
                   (AllNodes[m]._details_cache = i) => (m = tasks[t].node)]_vars

\* a node of the earlier operation holds an entity for ANA; in this
\* operation two nodes were built for ANA, the first memoized a locale and
\* the second is still empty
CachePrivate_Witness ==
  /\ Len(prior_nodes) >= 1
  /\ prior_nodes[1].key.name = "ANA"
  /\ dicts[prior_nodes[1]._details_cache][Raw("en-us")] # None
  /\ dicts[prior_nodes[1]._details_cache][Raw("fr-fr")] = None
  /\ Len(nodes) = 2
  /\ nodes[1].key = nodes[2].key /\ nodes[1].key.name = "ANA"
  /\ dicts[nodes[1]._details_cache][Raw("fr-fr")] # None
  /\ dicts[nodes[1]._details_cache][Raw("en-us")] = None
  /\ dicts[nodes[2]._details_cache] = EmptyCache
\* C17: with a non-empty keys list, every node emitted for a key is built
\* from the last Short Entity with that key in downstream order.
LastWriteWins ==
  (heroes_pc = "done" /\ RequestedKeys # <<>>) =>
    \A i \in 1..Len(nodes) :
      LET same == {j \in 1..Len(hero_shorts) :
                     hero_shorts[j].key.name = nodes[i].key.name}
      IN /\ nodes[i].short \in same
         /\ \A j \in same : j <= nodes[i].short

\* ANA is listed first and third and requested twice
LastWriteWins_Witness ==
  /\ heroes_pc = "done"
  /\ DownstreamNames = <<"ANA", "SOJOURN", "ANA">>
  /\ [i \in 1..Len(RequestedKeys) |-> RequestedKeys[i].name] = <<"ANA", "ANA">>
  /\ Len(nodes) = 2
  /\ nodes[1].short = 3 /\ nodes[2].short = 3
\* the getDetails calls on node n for a locale that invoked the detail
\* controller and have not failed
LiveInvocations(n, locale) ==
  {t \in TasksOf(n) : tasks[t].locale = locale /\ tasks[t].call # 0
                         /\ tasks[t].pc # "failed"}

\* C18: under any interleaving of getDetails calls on one node, two calls
\* for one locale started before either returned included, the detail
\* controller is invoked at most once per node and locale.
OneInvocationPerNodeLocale ==
  \A n \in 1..Len(nodes), locale \in LocaleEnum :
    Cardinality(LiveInvocations(n, locale)) <= 1
\* C19: the outbound TTL header is absent exactly when cache_ttl is, and
\* is otherwise the decimal string of cache_ttl; it changes only in a
\* merge_cache_ttl call, never by what a downstream controller leaves on the
\* response it was given.
HeaderMirrorsCacheTtl ==
  /\ [](response_header =
          IF cache_ttl = None THEN None ELSE Some(str(cache_ttl[1])))
  /\ [][/\ response_header' # response_header =>
            Len(merge_log') = Len(merge_log) + 1
        /\ (Raised(detail_calls, detail_calls') # {}
              \/ Raised(list_calls, list_calls') # {}) =>
            response_header' = response_header]_vars

\* the list call gave 10, a detail call 9, and another detail call raised
HeaderMirrorsCacheTtl_Witness ==
  /\ merge_log = <<Some(<<"1", "0">>), Some(<<"9">>)>>
  /\ cache_ttl = Some(9)
  /\ response_header = Some(<<"9">>)
  /\ \E c \in 1..Len(detail_calls) : detail_calls[c].status = "raised"
\* C20: a getDetails call that fails stores nothing, so every cache entry
\* is the validated entity of a detail call that returned for the node's
\* key and the entry's locale; and a getDetails call for a locale on which
\* every earlier call of the node failed invokes the detail controller again.
FailedDetailsStoreNothing ==
  /\ [](\A n \in 1..Len(nodes), k \in CacheKeys :
          LET entry == dicts[nodes[n]._details_cache][k] IN
            entry # None =>
              \E t \in TasksOf(n) :
                /\ tasks[t].pc = "done"
                /\ tasks[t].call = entry[1].obj
                /\ tasks[t].result = entry
                /\ tasks[t].locale.value = k
                /\ detail_calls[tasks[t].call].status = "returned"
                /\ detail_calls[tasks[t].call].hero_key.name = nodes[n].key.name
                /\ detail_calls[tasks[t].call].locale.value = k
                /\ entry[1].name = nodes[n].key.name
                /\ entry[1].description
                     = <<nodes[n].key.name, detail_calls[tasks[t].call].locale.name>>)
  /\ [][/\ \A t \in EndedTasks : tasks'[t].pc = "failed" => dicts' = dicts
        /\ Len(tasks') = Len(tasks) + 1 =>
            LET earlier == {t \in TasksOf(NewTask.node) :
                              tasks[t].locale = NewTask.locale}
            IN (earlier # {} /\ \A t \in earlier : tasks[t].pc = "failed") =>
                 /\ NewTask.pc = "await"
                 /\ Len(detail_calls') = Len(detail_calls) + 1
                 /\ NewTask.call = Len(detail_calls')]_vars

\* the first call of a node failed validation, the second invoked the
\* controller again and memoized its entity
FailedDetailsStoreNothing_Witness ==
  /\ Len(tasks) = 2
  /\ tasks[1].node = tasks[2].node /\ tasks[1].locale = tasks[2].locale
  /\ tasks[1].pc = "failed" /\ tasks[1].error = Some("ValidationError")
  /\ tasks[2].pc = "done" /\ tasks[2].call = 2
  /\ Memoized(tasks[2].node, tasks[2].locale) = tasks[2].result
  /\ tasks[2].result[1].obj = 2
====
